---- MODULE Spec2Model ----
(***************************************************************************)
(* Model of the novelty archive built by makeArchive (src/src/main.js).    *)
(*                                                                         *)
(* The program state is the set of closure variables of makeArchive:       *)
(* options, behaviorArchive, recentBehaviors, sparsities, dimensionality,  *)
(* maxArchiveSize and sparsitiesCalculatedThisGeneration.  Each exported   *)
(* method is one action.  A call that throws is an action too: it leaves   *)
(* whatever the code had already assigned before the throw.                *)
(*                                                                         *)
(* Numbers.  Behaviors are vectors of integers chosen so that every        *)
(* Euclidean distance between two of them is an integer; Sqrt is exact on  *)
(* those and undefined elsewhere.  A sparsity is a sum of integers divided *)
(* by a positive integer: it is kept as an exact fraction in lowest terms, *)
(* so that equal values have equal representations.  (In IEEE doubles the  *)
(* sums are exact and the correctly rounded quotient compares with an      *)
(* integer threshold exactly as the fraction does.)                        *)
(***************************************************************************)
EXTENDS Integers, Sequences, FiniteSets, TLC

VARIABLES options, behaviorArchive, recentBehaviors, sparsities, dimensionality,
          maxArchiveSize, sparsitiesCalculatedThisGeneration,
          nextId, last, finalized, computed, returned, promoted

progVars == <<options, behaviorArchive, recentBehaviors, sparsities, dimensionality,
              maxArchiveSize, sparsitiesCalculatedThisGeneration>>

vars == <<options, behaviorArchive, recentBehaviors, sparsities, dimensionality,
          maxArchiveSize, sparsitiesCalculatedThisGeneration,
          nextId, last, finalized, computed, returned, promoted>>

----------------------------------------------------------------------------
(* Bounds of the model. *)

\* successful noteBehavior calls explored over the life of one instance
MaxNotes == 4

\* the same, for the instance of the end-to-end scenario
ScenarioMaxNotes == 3

----------------------------------------------------------------------------
(* Values. *)

\* JavaScript undefined, and a defined number, for dimensionality and
\* behavior.length
Undefined == [defined |-> FALSE, n |-> 0]

Num(n) == [defined |-> TRUE, n |-> n]

\* maxArchiveSize after init: Infinity or a positive integer
Infinity == [inf |-> TRUE, n |-> 0]

Finite(n) == [inf |-> FALSE, n |-> n]

RECURSIVE GCD(_, _)
GCD(a, b) == IF b = 0 THEN a ELSE GCD(b, a % b)

\* the exact quotient n / d (d > 0, n >= 0), in lowest terms
Quot(n, d) == LET g == GCD(n, d) IN [num |-> n \div g, den |-> d \div g]

\* x >= t for a quotient x and an integer t
GreaterEq(x, t) == x.num >= t * x.den

----------------------------------------------------------------------------
(* Inputs. *)

\* the configurations explored: options accepted by the constructor's asserts
KValues == {1, 2}

ThresholdValues == {5}

MaxSizeOptions == {Undefined, Num(1), Num(2)}

\* behaviorDistanceFunction: unspecified, or a caller's function (here the
\* city-block distance, which does no checking of its own)
DistanceOptions == {"undefined", "cityBlock"}

Options == [kNearestNeighbors : KValues, archiveThreshold : ThresholdValues,
            behaviorDistanceFunction : DistanceOptions,
            maxArchiveSize : MaxSizeOptions]

\* values passed as `behavior`: arrays of numbers, a string, a number, undefined
Vectors == {<<0, 0>>, <<3, 4>>, <<7>>}

Array(v) == [kind |-> "array", elems |-> v]

BehaviorInputs == {Array(v) : v \in Vectors}
                    \cup {[kind |-> "string", elems |-> <<1, 1>>],
                          [kind |-> "number", elems |-> <<>>],
                          [kind |-> "undefined", elems |-> <<>>]}

\* values passed as `genome`: strings, and one value that is not a string
String(g) == [isString |-> TRUE, val |-> g]

NotAString == [isString |-> FALSE, val |-> "42"]

GenomeInputs == {String("g1"), NotAString}

----------------------------------------------------------------------------
(* Outcomes of a call: a normal return, or the exception thrown. *)

NoError == "none"

AssertionError == "AssertionError"

TypeError == "TypeError"

\* the outcome of one distance call or one sparsity measurement
Returned(v, c) == [threw |-> FALSE, error |-> NoError, val |-> v, calls |-> c]

Threw(e, c) == [threw |-> TRUE, error |-> e, val |-> 0, calls |-> c]

----------------------------------------------------------------------------
(* Distance functions. *)

Abs(x) == IF x < 0 THEN -x ELSE x

\* Math.pow(x, 2)
Pow2(x) == x * x

\* Math.sqrt, exact on perfect squares (the only arguments the inputs produce)
Sqrt(n) == CHOOSE r \in 0..n : r * r = n

RECURSIVE SumSquares(_, _, _)
SumSquares(behavior0, behavior1, i) ==
    IF i > Len(behavior0) THEN 0
    ELSE Pow2(behavior0[i] - behavior1[i]) + SumSquares(behavior0, behavior1, i + 1)

\* (variant: Math.sqrt left out)
defaultDistanceSquared(behavior0, behavior1) ==
    IF Len(behavior0) # Len(behavior1) THEN Threw(AssertionError, 1)
    ELSE Returned(SumSquares(behavior0, behavior1, 1), 1)

\* defaultBehaviorDistanceFunction: both arguments are arrays here (only
\* arrays are ever stored); differing lengths fail its assert
defaultBehaviorDistanceFunction(behavior0, behavior1) ==
    IF Len(behavior0) # Len(behavior1) THEN Threw(AssertionError, 1)
    ELSE Returned(Sqrt(SumSquares(behavior0, behavior1, 1)), 1)

\* s[i], or 0 past the end of s
Coordinate(s, i) == IF i <= Len(s) THEN s[i] ELSE 0

RECURSIVE SumAbs(_, _, _)
SumAbs(behavior0, behavior1, i) ==
    IF i > Len(behavior0) /\ i > Len(behavior1) THEN 0
    ELSE Abs(Coordinate(behavior0, i) - Coordinate(behavior1, i))
           + SumAbs(behavior0, behavior1, i + 1)

\* the caller's distance function of the "cityBlock" option: the sum of the
\* coordinates' absolute differences, a missing coordinate counting as 0
cityBlockDistanceFunction(behavior0, behavior1) ==
    Returned(SumAbs(behavior0, behavior1, 1), 1)

\* measureBehaviorDistance, as init binds it
measureBehaviorDistance(behavior0, behavior1) ==
    IF options.behaviorDistanceFunction = "undefined"
    THEN defaultBehaviorDistanceFunction(behavior0, behavior1)
    ELSE cityBlockDistanceFunction(behavior0, behavior1)

----------------------------------------------------------------------------
(* Array helpers. *)

\* the comparator passed to distances.sort
Compare(a, b) == a - b

RECURSIVE InsertSorted(_, _)
InsertSorted(x, s) ==
    IF s = <<>> THEN <<x>>
    ELSE IF Compare(x, Head(s)) < 0 THEN <<x>> \o s
    ELSE <<Head(s)>> \o InsertSorted(x, Tail(s))

\* distances.sort(function (a, b) { return a - b; })
RECURSIVE SortAscending(_)
SortAscending(s) ==
    IF s = <<>> THEN <<>>
    ELSE InsertSorted(Head(s), SortAscending(Tail(s)))

\* distances.slice(0, n)
Slice0(s, n) == SubSeq(s, 1, IF n < Len(s) THEN n ELSE Len(s))

\* distances.reduce(function (a, b) { return a + b; }) on a non-empty array
RECURSIVE ReduceSum(_)
ReduceSum(s) == IF Len(s) = 1 THEN s[1] ELSE ReduceSum(SubSeq(s, 1, Len(s) - 1)) + s[Len(s)]

\* the first position of s whose outcome is a throw, or Len(s) + 1
FirstThrow(s) ==
    IF \E i \in 1..Len(s) : s[i].threw
    THEN CHOOSE i \in 1..Len(s) : s[i].threw /\ \A j \in 1..(i - 1) : ~s[j].threw
    ELSE Len(s) + 1

----------------------------------------------------------------------------
(* Sparsity.  Positions are 1-based here: position i is index i - 1 of the *)
(* JavaScript arrays.                                                      *)

\* (variant: the test i !== recentBehaviorIndex left out)
NeighborsWithSelf(recentBehaviorIndex) ==
    [j \in 1..Len(behaviorArchive) |-> behaviorArchive[j].behavior]
      \o [j \in 1..Len(recentBehaviors) |-> recentBehaviors[j].behavior]

\* (variant: the generation's behaviors left out by value, those equal to
\* recentBehaviors[i] being skipped)
NeighborsExcludingEqual(recentBehaviorIndex) ==
    LET behavior == recentBehaviors[recentBehaviorIndex].behavior
        others == SelectSeq(recentBehaviors, LAMBDA e : e.behavior # behavior)
    IN [j \in 1..Len(behaviorArchive) |-> behaviorArchive[j].behavior]
         \o [j \in 1..Len(others) |-> others[j].behavior]

\* the behaviors measureSparsity compares recentBehaviors[i] with, in the
\* order it pushes their distances: the archive, then the other positions of
\* the generation
Neighbors(recentBehaviorIndex) ==
    [j \in 1..Len(behaviorArchive) |-> behaviorArchive[j].behavior]
      \o [j \in 1..(recentBehaviorIndex - 1) |-> recentBehaviors[j].behavior]
      \o [j \in 1..(Len(recentBehaviors) - recentBehaviorIndex) |->
             recentBehaviors[recentBehaviorIndex + j].behavior]

\* measureSparsity(recentBehaviorIndex): the mean of the effectiveKNearestNeighbors
\* smallest distances; reduce throws a TypeError on an empty array
measureSparsity(recentBehaviorIndex) ==
    IF ~(recentBehaviorIndex >= 1 /\ recentBehaviorIndex <= Len(recentBehaviors))
    THEN Threw(AssertionError, 0)
    ELSE
    LET behavior == recentBehaviors[recentBehaviorIndex].behavior
        neighbors == Neighbors(recentBehaviorIndex)
        measured == [j \in 1..Len(neighbors) |-> measureBehaviorDistance(neighbors[j], behavior)]
        stop == FirstThrow(measured)
        distances == [j \in 1..Len(measured) |-> measured[j].val]
        effectiveKNearestNeighbors ==
            IF Len(distances) < options.kNearestNeighbors
            THEN Len(distances) ELSE options.kNearestNeighbors
        nearest == Slice0(SortAscending(distances), effectiveKNearestNeighbors)
    IN IF stop <= Len(measured) THEN Threw(measured[stop].error, stop)
       ELSE IF nearest = <<>> THEN Threw(TypeError, Len(measured))
       ELSE Returned(Quot(ReduceSum(nearest), effectiveKNearestNeighbors), Len(measured))

RECURSIVE SumCalls(_, _)
SumCalls(s, n) == IF n = 0 THEN 0 ELSE SumCalls(s, n - 1) + s[n].calls

\* (variant: the assert on an empty generation left out)
RecentBehaviorsUnchecked == TRUE

\* assert(recentBehaviors.length > 0, ...)
RecentBehaviorsNotEmpty == Len(recentBehaviors) > 0

\* assert(sparsities.length === 0 || sparsities.length === recentBehaviors.length, ...)
AllBehaviorsAdded == Len(sparsities) = 0 \/ Len(sparsities) = Len(recentBehaviors)

\* (variant: the sparsities recomputed on every call)
SparsitiesAlwaysStale == TRUE

\* if (sparsities.length !== recentBehaviors.length)
SparsitiesStale == Len(sparsities) # Len(recentBehaviors)

\* (variant: sparsitiesCalculatedThisGeneration set before the asserts)
calculateSparsitiesFlagFirst ==
    IF ~RecentBehaviorsNotEmpty \/ ~AllBehaviorsAdded
    THEN [threw |-> TRUE, error |-> AssertionError, sparsities |-> sparsities,
          flag |-> TRUE, calls |-> 0]
    ELSE IF SparsitiesStale
    THEN LET measured == [i \in 1..Len(recentBehaviors) |-> measureSparsity(i)]
             stop == FirstThrow(measured)
             pushed == [i \in 1..(stop - 1) |-> measured[i].val]
         IN IF stop <= Len(measured)
            THEN [threw |-> TRUE, error |-> measured[stop].error, sparsities |-> pushed,
                  flag |-> TRUE, calls |-> SumCalls(measured, stop)]
            ELSE [threw |-> FALSE, error |-> NoError, sparsities |-> pushed,
                  flag |-> TRUE, calls |-> SumCalls(measured, Len(measured))]
    ELSE [threw |-> FALSE, error |-> NoError, sparsities |-> sparsities,
          flag |-> TRUE, calls |-> 0]

\* calculateSparsities: what it leaves in sparsities and in
\* sparsitiesCalculatedThisGeneration, whether it threw, and how many times it
\* called the distance function
calculateSparsities ==
    IF ~RecentBehaviorsNotEmpty
    THEN [threw |-> TRUE, error |-> AssertionError, sparsities |-> sparsities,
          flag |-> sparsitiesCalculatedThisGeneration, calls |-> 0]
    ELSE IF ~AllBehaviorsAdded
    THEN [threw |-> TRUE, error |-> AssertionError, sparsities |-> sparsities,
          flag |-> sparsitiesCalculatedThisGeneration, calls |-> 0]
    ELSE IF SparsitiesStale
    THEN LET measured == [i \in 1..Len(recentBehaviors) |-> measureSparsity(i)]
             stop == FirstThrow(measured)
             pushed == [i \in 1..(stop - 1) |-> measured[i].val]
         IN IF stop <= Len(measured)
            THEN [threw |-> TRUE, error |-> measured[stop].error, sparsities |-> pushed,
                  flag |-> sparsitiesCalculatedThisGeneration,
                  calls |-> SumCalls(measured, stop)]
            ELSE [threw |-> FALSE, error |-> NoError, sparsities |-> pushed,
                  flag |-> TRUE, calls |-> SumCalls(measured, Len(measured))]
    ELSE [threw |-> FALSE, error |-> NoError, sparsities |-> sparsities,
          flag |-> TRUE, calls |-> 0]

----------------------------------------------------------------------------
(* Archiving. *)

\* (variant: sparsities[i] > archiveThreshold)
RECURSIVE ArchiveNovelStrict(_, _, _, _)
ArchiveNovelStrict(archive, recent, sp, i) ==
    IF i > Len(recent) THEN archive
    ELSE IF sp[i].num > options.archiveThreshold * sp[i].den
         THEN ArchiveNovelStrict(Append(archive, recent[i]), recent, sp, i + 1)
         ELSE ArchiveNovelStrict(archive, recent, sp, i + 1)

\* the loop of archiveAndClear: the archive after pushing, in recording
\* order, every recent behavior whose sparsity is >= archiveThreshold
RECURSIVE ArchiveNovel(_, _, _, _)
ArchiveNovel(archive, recent, sp, i) ==
    IF i > Len(recent) THEN archive
    ELSE IF GreaterEq(sp[i], options.archiveThreshold)
         THEN ArchiveNovel(Append(archive, recent[i]), recent, sp, i + 1)
         ELSE ArchiveNovel(archive, recent, sp, i + 1)

\* (variant: splice(0, length - maxArchiveSize - 1))
pruneArchiveOffByOne(archive) ==
    IF ~maxArchiveSize.inf /\ Len(archive) > maxArchiveSize.n
    THEN SubSeq(archive, Len(archive) - maxArchiveSize.n, Len(archive))
    ELSE archive

\* (variant: splice(maxArchiveSize, length - maxArchiveSize), dropping the newest)
pruneArchiveFromBack(archive) ==
    IF ~maxArchiveSize.inf /\ Len(archive) > maxArchiveSize.n
    THEN SubSeq(archive, 1, maxArchiveSize.n)
    ELSE archive

\* pruneArchive: splice(0, length - maxArchiveSize) when length > maxArchiveSize
pruneArchive(archive) ==
    IF ~maxArchiveSize.inf /\ Len(archive) > maxArchiveSize.n
    THEN SubSeq(archive, Len(archive) - maxArchiveSize.n + 1, Len(archive))
    ELSE archive

----------------------------------------------------------------------------
(* The record of the latest call: which method, the length of the         *)
(* behavior passed and whether the arguments were an array and a string,   *)
(* its outcome, and what it returned.                                      *)

NoCall ==
    [op |-> "none", threw |-> FALSE, error |-> NoError,
     argLength |-> Undefined, wellFormed |-> FALSE,
     retSparsities |-> <<>>, retArchive |-> <<>>, retLength |-> 0, calls |-> 0]

\* the generation buffer, its sparsities and the archive as the latest
\* successful archiveAndClear found them
NoGeneration == [behaviors |-> <<>>, sparsities |-> <<>>, before |-> <<>>]

----------------------------------------------------------------------------
(* The state after makeArchive(options) has returned. *)

\* init: maxArchiveSize = options.maxArchiveSize || Infinity
InitialMaxArchiveSize(opts) ==
    IF opts.maxArchiveSize.defined /\ opts.maxArchiveSize.n # 0
    THEN Finite(opts.maxArchiveSize.n) ELSE Infinity

Init ==
    /\ options \in Options
    /\ behaviorArchive = <<>>
    /\ recentBehaviors = <<>>
    /\ sparsities = <<>>
    /\ dimensionality = Undefined
    /\ maxArchiveSize = InitialMaxArchiveSize(options)
    /\ sparsitiesCalculatedThisGeneration = FALSE
    /\ nextId = 1
    /\ last = NoCall
    /\ finalized = NoGeneration
    /\ computed = FALSE
    /\ returned = <<>>
    /\ promoted = <<>>

----------------------------------------------------------------------------
(* noteBehavior(behavior, genome) *)

\* behavior.length: undefined for a number; reading it off undefined throws
LengthOf(behavior) ==
    IF behavior.kind \in {"array", "string"} THEN Num(Len(behavior.elems)) ELSE Undefined

\* dimensionality after the first statement of noteBehavior
EstablishedDimensionality(behavior) ==
    IF ~dimensionality.defined THEN LengthOf(behavior) ELSE dimensionality

\* (variant: the ordering assert left out)
RecordingAllowedIgnored == TRUE

\* assert(sparsitiesCalculatedThisGeneration === false, ...)
RecordingAllowed == sparsitiesCalculatedThisGeneration = FALSE

\* (variant: behavior.length <= dimensionality)
DimensionalityAtMost(behavior, dim) ==
    LengthOf(behavior).defined /\ dim.defined /\ LengthOf(behavior).n <= dim.n

\* (variant: the dimensionality assert left out)
DimensionalityUnchecked(behavior, dim) == TRUE

\* assert(behavior.length === dimensionality, ...)
DimensionalityMatches(behavior, dim) == LengthOf(behavior) = dim

\* the four asserts of noteBehavior, in order
NoteAsserts(behavior, genome) ==
    /\ RecordingAllowed
    /\ behavior.kind = "array"
    /\ genome.isString
    /\ DimensionalityMatches(behavior, EstablishedDimensionality(behavior))

\* whether the call reaches recentBehaviors.push
NotePushes(behavior, genome) ==
    /\ ~(~dimensionality.defined /\ behavior.kind = "undefined")
    /\ NoteAsserts(behavior, genome)

\* (variant: recentBehaviors.unshift)
Unshifted(entry) == <<entry>> \o recentBehaviors

\* recentBehaviors.push([behavior, genome])
Pushed(entry) == Append(recentBehaviors, entry)

NoteCall(behavior, genome, threw, error) ==
    [NoCall EXCEPT !.op = "noteBehavior", !.threw = threw, !.error = error,
                   !.argLength = LengthOf(behavior),
                   !.wellFormed = (behavior.kind = "array" /\ genome.isString)]

noteBehavior(behavior, genome) ==
    IF ~dimensionality.defined /\ behavior.kind = "undefined"
    THEN \* behavior.length throws before anything is assigned
         /\ last' = NoteCall(behavior, genome, TRUE, TypeError)
         /\ UNCHANGED <<progVars, nextId, finalized, computed, returned, promoted>>
    ELSE IF ~NoteAsserts(behavior, genome)
    THEN /\ dimensionality' = EstablishedDimensionality(behavior)
         /\ last' = NoteCall(behavior, genome, TRUE, AssertionError)
         /\ UNCHANGED <<options, behaviorArchive, recentBehaviors, sparsities,
                        maxArchiveSize, sparsitiesCalculatedThisGeneration,
                        nextId, finalized, computed, returned, promoted>>
    ELSE /\ dimensionality' = EstablishedDimensionality(behavior)
         /\ recentBehaviors' =
                Pushed([behavior |-> behavior.elems, genome |-> genome.val, id |-> nextId])
         /\ nextId' = nextId + 1
         /\ returned' = <<>>
         /\ last' = NoteCall(behavior, genome, FALSE, NoError)
         /\ UNCHANGED <<options, behaviorArchive, sparsities, maxArchiveSize,
                        sparsitiesCalculatedThisGeneration, finalized, computed,
                        promoted>>

\* a call of noteBehavior with arguments drawn from the given sets, at most
\* maxNotes of the calls explored being successful
NoteBehaviorIn(behaviors, genomes, maxNotes) ==
    \E behavior \in behaviors, genome \in genomes :
        /\ NotePushes(behavior, genome) => nextId <= maxNotes
        /\ noteBehavior(behavior, genome)

NoteBehavior == NoteBehaviorIn(BehaviorInputs, GenomeInputs, MaxNotes)

----------------------------------------------------------------------------
(* getSparsities() *)

getSparsities ==
    LET c == calculateSparsities
    IN /\ sparsities' = c.sparsities
       /\ sparsitiesCalculatedThisGeneration' = c.flag
       /\ last' = [NoCall EXCEPT !.op = "getSparsities", !.threw = c.threw,
                                 !.error = c.error, !.calls = c.calls,
                                 !.retSparsities = IF c.threw THEN <<>> ELSE c.sparsities]
       /\ computed' = (IF c.threw THEN computed ELSE TRUE)
       /\ returned' = (IF c.threw THEN returned ELSE c.sparsities)
       /\ UNCHANGED <<options, behaviorArchive, recentBehaviors, dimensionality,
                      maxArchiveSize, nextId, finalized, promoted>>

----------------------------------------------------------------------------
(* getArchive() and getArchiveLength() *)

\* (variant: behaviorArchive.splice(0) returned, which empties the live array)
getArchiveSpliced ==
    /\ last' = [NoCall EXCEPT !.op = "getArchive", !.retArchive = behaviorArchive]
    /\ behaviorArchive' = <<>>
    /\ UNCHANGED <<options, recentBehaviors, sparsities, dimensionality, maxArchiveSize,
                   sparsitiesCalculatedThisGeneration, nextId, finalized, computed,
                   returned, promoted>>

getArchive ==
    /\ last' = [NoCall EXCEPT !.op = "getArchive", !.retArchive = behaviorArchive]
    /\ UNCHANGED <<progVars, nextId, finalized, computed, returned, promoted>>

getArchiveLength ==
    /\ last' = [NoCall EXCEPT !.op = "getArchiveLength", !.retLength = Len(behaviorArchive)]
    /\ UNCHANGED <<progVars, nextId, finalized, computed, returned, promoted>>

----------------------------------------------------------------------------
(* archiveAndClear() *)

\* (variant: the guard left as calculateSparsities set it)
GuardLeftSet == TRUE

\* sparsitiesCalculatedThisGeneration = false, the last statement of archiveAndClear
ClearedGuard == FALSE

\* the entries the loop of archiveAndClear pushes, each with the sparsity it
\* was pushed for
Promotions(recent, sp) ==
    LET pushed == ArchiveNovel(<<>>, recent, sp, 1)
    IN [r \in 1..Len(pushed) |->
           [entry |-> pushed[r],
            sparsity |-> sp[CHOOSE i \in 1..Len(recent) : recent[i] = pushed[r]]]]

archiveAndClear ==
    LET c == calculateSparsities
    IN IF c.threw
       THEN /\ sparsities' = c.sparsities
            /\ sparsitiesCalculatedThisGeneration' = c.flag
            /\ last' = [NoCall EXCEPT !.op = "archiveAndClear", !.threw = TRUE,
                                      !.error = c.error, !.calls = c.calls]
            /\ UNCHANGED <<options, behaviorArchive, recentBehaviors, dimensionality,
                           maxArchiveSize, nextId, finalized, computed, returned,
                           promoted>>
       ELSE /\ behaviorArchive' =
                   pruneArchive(ArchiveNovel(behaviorArchive, recentBehaviors, c.sparsities, 1))
            /\ recentBehaviors' = <<>>
            /\ sparsities' = <<>>
            /\ sparsitiesCalculatedThisGeneration' = ClearedGuard
            /\ last' = [NoCall EXCEPT !.op = "archiveAndClear", !.calls = c.calls]
            /\ promoted' = promoted \o Promotions(recentBehaviors, c.sparsities)
            /\ finalized' = [behaviors |-> recentBehaviors, sparsities |-> c.sparsities,
                             before |-> behaviorArchive]
            /\ computed' = FALSE
            /\ returned' = <<>>
            /\ UNCHANGED <<options, dimensionality, maxArchiveSize, nextId>>

----------------------------------------------------------------------------
Next ==
    \/ NoteBehavior
    \/ getSparsities
    \/ getArchive
    \/ getArchiveLength
    \/ archiveAndClear

Spec == Init /\ [][Next]_vars

----------------------------------------------------------------------------
(* The end-to-end scenario's instance: kNearestNeighbors = 1,              *)
(* archiveThreshold = 2, maxArchiveSize = 2, the default distance; calls   *)
(* in any order, with the scenario's behaviors and genomes as arguments.   *)

ScenarioOptions ==
    [kNearestNeighbors |-> 1, archiveThreshold |-> 2,
     behaviorDistanceFunction |-> "undefined", maxArchiveSize |-> Num(2)]

ScenarioBehaviorInputs == {Array(<<0, 0>>), Array(<<10, 0>>), Array(<<7>>)}

ScenarioGenomeInputs == {String("g1"), String("g2"), String("g3")}

ScenarioInit ==
    /\ options = ScenarioOptions
    /\ behaviorArchive = <<>>
    /\ recentBehaviors = <<>>
    /\ sparsities = <<>>
    /\ dimensionality = Undefined
    /\ maxArchiveSize = InitialMaxArchiveSize(options)
    /\ sparsitiesCalculatedThisGeneration = FALSE
    /\ nextId = 1
    /\ last = NoCall
    /\ finalized = NoGeneration
    /\ computed = FALSE
    /\ returned = <<>>
    /\ promoted = <<>>

ScenarioNoteBehavior ==
    NoteBehaviorIn(ScenarioBehaviorInputs, ScenarioGenomeInputs, ScenarioMaxNotes)

ScenarioNext ==
    \/ ScenarioNoteBehavior
    \/ getSparsities
    \/ getArchive
    \/ getArchiveLength
    \/ archiveAndClear

SpecScenario == ScenarioInit /\ [][ScenarioNext]_vars

----------------------------------------------------------------------------
(* makeArchive(options): the constructor's asserts, then init.             *)
(*                                                                         *)
(* An option as the caller passes it is a number, a function or undefined. *)
(* A number is kept as its count of halves, so that 1.5 is 3 halves and an *)
(* integer is an even count.  Until the asserts have accepted them,        *)
(* options holds the values in this form; init then leaves them in the     *)
(* form the methods read (Options).  Before init has run maxArchiveSize,   *)
(* like every variable of the closure, is unassigned.                      *)

RawNumber(halves) == [kind |-> "number", halves |-> halves]

RawUndefined == [kind |-> "undefined", halves |-> 0]

RawFunction == [kind |-> "function", halves |-> 0]

\* 1, 1.5, 0, -1, undefined
RawKValues == {RawNumber(2), RawNumber(3), RawNumber(0), RawNumber(-2), RawUndefined}

\* 5, 2.5, 0, undefined
RawThresholdValues == {RawNumber(10), RawNumber(5), RawNumber(0), RawUndefined}

\* undefined, a function, 1
RawDistanceValues == {RawUndefined, RawFunction, RawNumber(2)}

\* undefined, 1, 1.5, 0
RawMaxSizeValues == {RawUndefined, RawNumber(2), RawNumber(3), RawNumber(0)}

RawOptions == [kNearestNeighbors : RawKValues, archiveThreshold : RawThresholdValues,
               behaviorDistanceFunction : RawDistanceValues,
               maxArchiveSize : RawMaxSizeValues]

\* util.isInt: a number without a fractional part
isInt(v) == v.kind = "number" /\ v.halves % 2 = 0

\* v > 0 (false of undefined)
Positive(v) == v.kind = "number" /\ v.halves > 0

\* assert(util.isInt(options.kNearestNeighbors) && options.kNearestNeighbors > 0, ...)
NeighborsAccepted(v) == isInt(v) /\ Positive(v)

\* (variant: the threshold accepted as any number > 0)
ThresholdAnyPositive(v) == Positive(v)

\* assert(util.isInt(options.archiveThreshold) && options.archiveThreshold > 0, ...)
ThresholdAccepted(v) == isInt(v) /\ Positive(v)

\* assert(typeof ... === "function" || ... === undefined, ...)
DistanceAccepted(v) == v.kind = "function" \/ v.kind = "undefined"

\* assert((util.isInt(options.maxArchiveSize) && options.maxArchiveSize > 0)
\*        || options.maxArchiveSize === undefined, ...)
MaxSizeAccepted(v) == (isInt(v) /\ Positive(v)) \/ v.kind = "undefined"

\* the asserts of makeArchive (options is an object in every input explored)
OptionsAccepted(raw) ==
    /\ NeighborsAccepted(raw.kNearestNeighbors)
    /\ ThresholdAccepted(raw.archiveThreshold)
    /\ DistanceAccepted(raw.behaviorDistanceFunction)
    /\ MaxSizeAccepted(raw.maxArchiveSize)

\* accepted options in the form the methods read
AcceptedOptions(raw) ==
    [kNearestNeighbors |-> raw.kNearestNeighbors.halves \div 2,
     archiveThreshold |-> raw.archiveThreshold.halves \div 2,
     behaviorDistanceFunction |->
         IF raw.behaviorDistanceFunction.kind = "function" THEN "cityBlock" ELSE "undefined",
     maxArchiveSize |->
         IF raw.maxArchiveSize.kind = "undefined" THEN Undefined
         ELSE Num(raw.maxArchiveSize.halves \div 2)]

\* maxArchiveSize before init has run
NotInitialized == [inf |-> FALSE, n |-> 0]

\* the state in which makeArchive is called
ConstructInit ==
    /\ options \in RawOptions
    /\ behaviorArchive = <<>>
    /\ recentBehaviors = <<>>
    /\ sparsities = <<>>
    /\ dimensionality = Undefined
    /\ maxArchiveSize = NotInitialized
    /\ sparsitiesCalculatedThisGeneration = FALSE
    /\ nextId = 1
    /\ last = NoCall
    /\ finalized = NoGeneration
    /\ computed = FALSE
    /\ returned = <<>>
    /\ promoted = <<>>

\* makeArchive returned the object `that`: its methods can be called
Constructed == maxArchiveSize # NotInitialized

makeArchive ==
    /\ last.op = "none"
    /\ ~Constructed
    /\ IF OptionsAccepted(options)
       THEN /\ options' = AcceptedOptions(options)
            /\ behaviorArchive' = <<>>
            /\ recentBehaviors' = <<>>
            /\ sparsities' = <<>>
            /\ maxArchiveSize' = InitialMaxArchiveSize(AcceptedOptions(options))
            /\ sparsitiesCalculatedThisGeneration' = FALSE
            /\ last' = [NoCall EXCEPT !.op = "makeArchive"]
            /\ UNCHANGED <<dimensionality, nextId, finalized, computed, returned, promoted>>
       ELSE /\ last' = [NoCall EXCEPT !.op = "makeArchive", !.threw = TRUE,
                                      !.error = AssertionError]
            /\ UNCHANGED <<progVars, nextId, finalized, computed, returned, promoted>>

ConstructNext ==
    \/ makeArchive
    \/ Constructed /\ NoteBehavior
    \/ Constructed /\ getSparsities
    \/ Constructed /\ getArchive
    \/ Constructed /\ getArchiveLength
    \/ Constructed /\ archiveAndClear

SpecConstruct == ConstructInit /\ [][ConstructNext]_vars

----------------------------------------------------------------------------
(* Properties.                                                             *)
(* A step whose next state has last.op = m is a call of method m: only m   *)
(* writes that value.  Step properties are of the form [][...]_vars.       *)

Min(a, b) == IF a < b THEN a ELSE b

FinalizeSucceeded == last.op = "archiveAndClear" /\ ~last.threw

ComputeSucceeded == last.op = "getSparsities" /\ ~last.threw

\* whether entry e (one array pushed by noteBehavior) is in the archive
InArchive(e) == \E j \in 1..Len(behaviorArchive) : behaviorArchive[j] = e

\* the position of e in the archive
ArchivePosition(e) == CHOOSE j \in 1..Len(behaviorArchive) : behaviorArchive[j] = e

\* positions of the generation finalized last whose sparsity was >= archiveThreshold
NovelPositions ==
    {i \in 1..Len(finalized.behaviors) :
        finalized.sparsities[i].num >= options.archiveThreshold * finalized.sparsities[i].den}

\* those among them that fit the capacity, counted from the newest
KeptPositions ==
    {i \in NovelPositions :
        maxArchiveSize.inf \/ Cardinality({j \in NovelPositions : j > i}) < maxArchiveSize.n}

\* the novel observations of the generation finalized last, in recording order
NovelObservations ==
    [r \in 1..Cardinality(NovelPositions) |->
        finalized.behaviors[CHOOSE i \in NovelPositions :
                                Cardinality({j \in NovelPositions : j <= i}) = r]]

\* C1: once getSparsities has succeeded and until archiveAndClear succeeds,
\* every noteBehavior call throws and leaves the generation buffer as it was.
C1_RecordFailsAfterCompute ==
    [][(computed /\ last'.op = "noteBehavior")
          => (last'.threw /\ recentBehaviors' = recentBehaviors)]_vars

\* a noteBehavior call with a vector of the right length has failed after getSparsities
C1_Witness ==
    /\ computed
    /\ last.op = "noteBehavior" /\ last.threw
    /\ last.argLength = dimensionality
    /\ Len(recentBehaviors) >= 2

\* C2 (as stated): after a successful archiveAndClear the archive holds every
\* observation of the generation with sparsity >= archiveThreshold, in
\* recording order, and none with a smaller sparsity.
C2_AllNovelArchived ==
    FinalizeSucceeded =>
        /\ \A i \in 1..Len(finalized.behaviors) :
              InArchive(finalized.behaviors[i]) <=> i \in NovelPositions
        /\ \A i, j \in NovelPositions :
              i < j => ArchivePosition(finalized.behaviors[i])
                         < ArchivePosition(finalized.behaviors[j])

\* C2 (amended): after a successful archiveAndClear the archive holds, in
\* recording order, the last min(p, maxArchiveSize) of the p observations of
\* the generation with sparsity >= archiveThreshold (all of them when
\* maxArchiveSize is unspecified), and none with a smaller sparsity.
C2_NovelArchivedUpToCapacity ==
    FinalizeSucceeded =>
        /\ \A i \in 1..Len(finalized.behaviors) :
              InArchive(finalized.behaviors[i]) <=> i \in KeptPositions
        /\ \A i, j \in KeptPositions :
              i < j => ArchivePosition(finalized.behaviors[i])
                         < ArchivePosition(finalized.behaviors[j])

\* a generation was finalized with an observation exactly at the threshold
\* archived and an earlier novel one lost to the capacity
C2_Witness ==
    /\ FinalizeSucceeded
    /\ \E i \in KeptPositions :
          finalized.sparsities[i].num = options.archiveThreshold * finalized.sparsities[i].den
    /\ KeptPositions # NovelPositions
    /\ KeptPositions # {}

\* C3: the archive never holds more than maxArchiveSize entries; when
\* maxArchiveSize is unspecified no entry ever leaves the archive.
C3_ArchiveBounded ==
    /\ [](options.maxArchiveSize.defined
            => Len(behaviorArchive) <= options.maxArchiveSize.n)
    /\ [][~options.maxArchiveSize.defined
            => /\ Len(behaviorArchive') >= Len(behaviorArchive)
               /\ SubSeq(behaviorArchive', 1, Len(behaviorArchive)) = behaviorArchive]_vars

\* a full archive after a finalization that evicted an older entry
C3_Witness ==
    /\ FinalizeSucceeded
    /\ options.maxArchiveSize.defined
    /\ Len(behaviorArchive) = options.maxArchiveSize.n
    /\ \E j \in 1..Len(finalized.before) : ~InArchive(finalized.before[j])

\* C4: a successful archiveAndClear leaves the last min(n, maxArchiveSize)
\* elements of S = (archive before) \o (novel observations in recording order),
\* n = Len(S).
C4_ArchiveIsSuffix ==
    FinalizeSucceeded =>
        LET S == finalized.before \o NovelObservations
            n == Len(S)
            m == IF maxArchiveSize.inf THEN n ELSE Min(n, maxArchiveSize.n)
        IN behaviorArchive = SubSeq(S, n - m + 1, n)

\* more observations were promoted at once than the archive can hold
C4_Witness ==
    /\ FinalizeSucceeded
    /\ ~maxArchiveSize.inf
    /\ Cardinality(NovelPositions) > maxArchiveSize.n
    /\ Len(behaviorArchive) = maxArchiveSize.n

\* C5: once dimensionality is set it never changes, and every noteBehavior
\* call whose behavior has another length throws and leaves the buffer as it was.
C5_DimensionalityEnforced ==
    [][dimensionality.defined
          => /\ dimensionality' = dimensionality
             /\ (last'.op = "noteBehavior" /\ last'.argLength # dimensionality)
                   => (last'.threw /\ recentBehaviors' = recentBehaviors)]_vars

\* in a later generation, with recording allowed, a vector of another length was refused
C5_Witness ==
    /\ behaviorArchive # <<>>
    /\ ~sparsitiesCalculatedThisGeneration
    /\ last.op = "noteBehavior" /\ last.threw
    /\ last.argLength.defined /\ dimensionality.defined
    /\ last.argLength # dimensionality

\* C6: getSparsities on an empty generation buffer throws.
C6_ComputeFailsOnEmpty ==
    [][(Len(recentBehaviors) = 0 /\ last'.op = "getSparsities") => last'.threw]_vars

\* getSparsities has failed on an empty buffer right after a finalization
\* that left the archive non-empty
C6_Witness ==
    /\ last.op = "getSparsities" /\ last.threw
    /\ recentBehaviors = <<>>
    /\ behaviorArchive # <<>>

\* C7 (as stated): getSparsities on a non-empty generation buffer returns one
\* sparsity per recorded observation; only an empty buffer makes it throw.
C7_ComputeSucceedsOnNonEmpty ==
    (last.op = "getSparsities" /\ Len(recentBehaviors) > 0)
        => (~last.threw /\ Len(last.retSparsities) = Len(recentBehaviors))

\* C8: a successful getSparsities that follows a successful one, with no
\* successful noteBehavior or archiveAndClear in between, returns the same
\* sequence, calls the distance function not once, and changes nothing.
C8_CacheStable ==
    [][(returned # <<>> /\ last'.op = "getSparsities" /\ ~last'.threw)
          => /\ last'.retSparsities = returned
             /\ last'.calls = 0
             /\ UNCHANGED progVars]_vars

\* a second getSparsities has answered from the cache of a three-observation
\* generation measured against a non-empty archive
C8_Witness ==
    /\ ComputeSucceeded
    /\ last.calls = 0
    /\ returned = last.retSparsities
    /\ Len(returned) >= 2
    /\ behaviorArchive # <<>>

\* the distances from the behavior at position i of generation `recent` to
\* every archived behavior and to every other position of the generation
Candidates(archive, recent, i) ==
    [j \in 1..Len(archive) |-> measureBehaviorDistance(archive[j].behavior, recent[i].behavior).val]
      \o [j \in 1..(Len(recent) - 1) |->
            measureBehaviorDistance(recent[IF j < i THEN j ELSE j + 1].behavior,
                                    recent[i].behavior).val]

RECURSIVE SumAt(_, _)
SumAt(d, P) ==
    IF P = {} THEN 0
    ELSE LET p == CHOOSE q \in P : TRUE IN d[p] + SumAt(d, P \ {p})

\* x is the mean of the Min(kNearestNeighbors, Len(d)) smallest values of d
IsMeanOfNearest(x, d) ==
    LET k == Min(options.kNearestNeighbors, Len(d))
    IN /\ k > 0
       /\ \E P \in SUBSET (1..Len(d)) :
             /\ Cardinality(P) = k
             /\ \A p \in P, q \in (1..Len(d)) \ P : d[p] <= d[q]
             /\ x.num * k = x.den * SumAt(d, P)

\* C9: every sparsity returned by getSparsities, and every sparsity
\* archiveAndClear decides on, is the mean of the k_eff smallest distances to
\* the archive as it stood before the generation's promotions and to the other
\* observations of the generation.
C9_SparsityIsMeanOfNearest ==
    /\ ComputeSucceeded =>
          \A i \in 1..Len(recentBehaviors) :
              IsMeanOfNearest(last.retSparsities[i],
                              Candidates(behaviorArchive, recentBehaviors, i))
    /\ FinalizeSucceeded =>
          \A i \in 1..Len(finalized.behaviors) :
              IsMeanOfNearest(finalized.sparsities[i],
                              Candidates(finalized.before, finalized.behaviors, i))

\* sparsities were returned for a generation of two measured against a
\* non-empty archive, three candidates each, one of them a proper fraction
C9_Witness ==
    /\ ComputeSucceeded
    /\ Len(behaviorArchive) = 2
    /\ Len(recentBehaviors) = 2
    /\ \E i \in 1..2 : last.retSparsities[i].den = 2

\* an entry without its identity: the behavior and the genome
Pair(e) == <<e.behavior, e.genome>>

Pairs(s) == [i \in 1..Len(s) |-> Pair(s[i])]

G1 == <<<<0, 0>>, "g1">>

G2 == <<<<10, 0>>, "g2">>

G3 == <<<<10, 0>>, "g3">>

\* C10: in the scenario's instance, recording g1 at (0,0) and g2 at (10,0)
\* gives sparsities 10 and 10 and archives both; recording g3 at (10,0) next
\* gives sparsity 0 and leaves the archive [g1, g2].
C10_Scenario ==
    /\ (ComputeSucceeded /\ behaviorArchive = <<>> /\ Pairs(recentBehaviors) = <<G1, G2>>)
          => last.retSparsities = <<Quot(10, 1), Quot(10, 1)>>
    /\ (FinalizeSucceeded /\ finalized.before = <<>> /\ Pairs(finalized.behaviors) = <<G1, G2>>)
          => Pairs(behaviorArchive) = <<G1, G2>>
    /\ (ComputeSucceeded /\ Pairs(behaviorArchive) = <<G1, G2>>
                         /\ Pairs(recentBehaviors) = <<G3>>)
          => last.retSparsities = <<Quot(0, 1)>>
    /\ (FinalizeSucceeded /\ Pairs(finalized.before) = <<G1, G2>>
                          /\ Pairs(finalized.behaviors) = <<G3>>)
          => (Pairs(behaviorArchive) = <<G1, G2>> /\ Len(behaviorArchive) = 2)

\* the scenario has run to its end
C10_Witness ==
    /\ FinalizeSucceeded
    /\ Pairs(finalized.before) = <<G1, G2>>
    /\ Pairs(finalized.behaviors) = <<G3>>
    /\ finalized.sparsities = <<Quot(0, 1)>>
    /\ Pairs(behaviorArchive) = <<G1, G2>>
    /\ options = ScenarioOptions

\* a noteBehavior call with an array of the established length (of any length
\* while none is established) and a string genome
WellFormedNote(call, dim) ==
    /\ call.op = "noteBehavior"
    /\ call.wellFormed
    /\ (dim.defined => call.argLength = dim)

\* C11: a successful archiveAndClear, after getSparsities or straight after
\* recording, leaves the buffer and the sparsities empty and the guard clear,
\* and the next noteBehavior call with a vector of length D and a string
\* genome succeeds.
C11_FinalizeResets ==
    /\ [](FinalizeSucceeded
            => /\ recentBehaviors = <<>>
               /\ sparsities = <<>>
               /\ sparsitiesCalculatedThisGeneration = FALSE)
    /\ [][(FinalizeSucceeded /\ WellFormedNote(last', dimensionality))
            => (~last'.threw /\ Len(recentBehaviors') = 1)]_vars

\* the first observation of a new generation has been recorded after a
\* finalization that computed the sparsities itself
C11_Witness ==
    /\ last.op = "noteBehavior" /\ ~last.threw
    /\ Len(recentBehaviors) = 1
    /\ finalized.behaviors # <<>>
    /\ behaviorArchive # <<>>

\* a positive integer, as an option passed to makeArchive
IsPositiveInteger(v) == v.kind = "number" /\ v.halves > 0 /\ v.halves % 2 = 0

\* C12: makeArchive throws when kNearestNeighbors or archiveThreshold is not
\* a positive integer, and returns an initialized instance when both are and
\* the two other options are unspecified; after a throw there is no instance
\* and no method is ever called.
C12_ConstructionChecks ==
    /\ [][last'.op = "makeArchive" =>
            /\ (~IsPositiveInteger(options.kNearestNeighbors)
                   \/ ~IsPositiveInteger(options.archiveThreshold))
                  => (last'.threw /\ ~Constructed' /\ options' = options)
            /\ (/\ IsPositiveInteger(options.kNearestNeighbors)
                /\ IsPositiveInteger(options.archiveThreshold)
                /\ options.behaviorDistanceFunction = RawUndefined
                /\ options.maxArchiveSize = RawUndefined)
                  => /\ ~last'.threw
                     /\ Constructed'
                     /\ maxArchiveSize' = Infinity
                     /\ behaviorArchive' = <<>> /\ recentBehaviors' = <<>>
                     /\ 2 * options'.kNearestNeighbors = options.kNearestNeighbors.halves
                     /\ 2 * options'.archiveThreshold = options.archiveThreshold.halves]_vars
    /\ [][~(last.op = "makeArchive" /\ last.threw)]_vars

\* makeArchive has thrown for archiveThreshold = 2.5, every other option
\* being acceptable
C12_Witness ==
    /\ last.op = "makeArchive" /\ last.threw
    /\ ~Constructed
    /\ options.archiveThreshold = RawNumber(5)
    /\ options.kNearestNeighbors = RawNumber(2)
    /\ options.behaviorDistanceFunction = RawUndefined
    /\ options.maxArchiveSize = RawUndefined

\* C13: every behavior vector in the generation buffer and in the archive has
\* the length dimensionality holds.
C13_OneDimensionality ==
    /\ \A i \in 1..Len(recentBehaviors) :
          dimensionality = Num(Len(recentBehaviors[i].behavior))
    /\ \A i \in 1..Len(behaviorArchive) :
          dimensionality = Num(Len(behaviorArchive[i].behavior))

\* vectors of two generations are held, and one of another length was refused
C13_Witness ==
    /\ behaviorArchive # <<>>
    /\ recentBehaviors # <<>>
    /\ last.op = "noteBehavior" /\ last.threw /\ last.wellFormed
    /\ last.argLength # dimensionality
    /\ ~sparsitiesCalculatedThisGeneration

\* C14: only a successful archiveAndClear changes the archive.
C14_ArchiveFrame ==
    [][behaviorArchive' # behaviorArchive
          => (last'.op = "archiveAndClear" /\ ~last'.threw)]_vars

\* mid-generation, with a full archive and a buffer that would overflow it,
\* getArchive has returned the archive as the last finalization left it
C14_Witness ==
    /\ last.op = "getArchive"
    /\ last.retArchive = behaviorArchive
    /\ ~maxArchiveSize.inf
    /\ Len(behaviorArchive) = maxArchiveSize.n
    /\ Len(recentBehaviors) >= 2
    /\ sparsitiesCalculatedThisGeneration

\* C15: the generation buffer changes only by a successful noteBehavior, which
\* appends one observation at the end, and by a successful archiveAndClear,
\* which empties it.
C15_BufferFrame ==
    [][recentBehaviors' # recentBehaviors
          => \/ /\ last'.op = "noteBehavior" /\ ~last'.threw
                /\ Len(recentBehaviors') = Len(recentBehaviors) + 1
                /\ SubSeq(recentBehaviors', 1, Len(recentBehaviors)) = recentBehaviors
             \/ /\ last'.op = "archiveAndClear" /\ ~last'.threw
                /\ recentBehaviors' = <<>>]_vars

\* a third observation has been appended behind two earlier ones
C15_Witness ==
    /\ last.op = "noteBehavior" /\ ~last.threw
    /\ Len(recentBehaviors) = 3
    /\ recentBehaviors[3].id = nextId - 1
    /\ recentBehaviors[1].id < recentBehaviors[2].id

\* pairs of positions of sequence `recent` that hold equal behavior vectors
EqualPairs(recent) ==
    {p \in (1..Len(recent)) \X (1..Len(recent)) :
        p[1] # p[2] /\ recent[p[1]].behavior = recent[p[2]].behavior}

\* C16: with kNearestNeighbors = 1, two observations of one generation with
\* equal behavior vectors both get sparsity 0 and neither is archived.
C16_DuplicatesNotNovel ==
    options.kNearestNeighbors = 1 =>
        /\ ComputeSucceeded =>
              \A p \in EqualPairs(recentBehaviors) : last.retSparsities[p[1]].num = 0
        /\ FinalizeSucceeded =>
              \A p \in EqualPairs(finalized.behaviors) :
                  /\ finalized.sparsities[p[1]].num = 0
                  /\ ~InArchive(finalized.behaviors[p[1]])

\* a generation with two equal vectors and a third, novel one was finalized:
\* the third was archived, the two were not
C16_Witness ==
    /\ FinalizeSucceeded
    /\ options.kNearestNeighbors = 1
    /\ EqualPairs(finalized.behaviors) # {}
    /\ \E i \in 1..Len(finalized.behaviors) : InArchive(finalized.behaviors[i])

C18_FailedRecordLeavesState ==
    [][(last'.op = "noteBehavior" /\ last'.threw) => UNCHANGED progVars]_vars

LastN(s, n) == SubSeq(s, Len(s) - n + 1, Len(s))

\* C20: the archive is the last min(m, maxArchiveSize) of the m observations
\* ever promoted, in promotion order; no observation is promoted twice, and
\* each was promoted for a sparsity >= archiveThreshold.
C20_ArchiveIsHistorySuffix ==
    /\ LET m == Len(promoted)
           n == IF maxArchiveSize.inf THEN m ELSE Min(m, maxArchiveSize.n)
       IN behaviorArchive = [i \in 1..n |-> LastN(promoted, n)[i].entry]
    /\ \A i, j \in 1..Len(promoted) :
          i # j => promoted[i].entry.id # promoted[j].entry.id
    /\ \A i \in 1..Len(promoted) :
          promoted[i].sparsity.num >= options.archiveThreshold * promoted[i].sparsity.den

\* entries of two generations have been promoted, three in all, and only
\* the newest is left in an archive of capacity one
C20_Witness ==
    /\ FinalizeSucceeded
    /\ finalized.before # <<>>
    /\ Len(promoted) = 3
    /\ Len(behaviorArchive) = 1
    /\ behaviorArchive[1] = promoted[3].entry

====
